---- MODULE Spec2Model ----
(***************************************************************************)
(* A model of packages/angular_devkit/build_angular/src/utils/             *)
(* i18n-inlining.ts: emittedFilesToInlineOptions (the classifier and the   *)
(* consumer of the emitted files) and i18nInlineEmittedFiles (the          *)
(* orchestrator).  The file system, the logger, the spinner, the executor  *)
(* and copyAssets are the collaborators; every call the code makes on them *)
(* is appended to `trace` in program order.                                *)
(***************************************************************************)
EXTENDS Naturals, Sequences, FiniteSets, TLC

VARIABLES
    emittedFiles,           \* input: EmittedFiles[]
    scriptsEntryPointName,  \* input: string[]
    initialDisk,            \* the files that exist under emittedPath at the call
    disk,                   \* the files that exist under emittedPath
    outputs,                \* <<base, relative path, content>> written by copyAssets
    pc,                     \* position of i18nInlineEmittedFiles
    idx,                    \* position of the for loop of emittedFilesToInlineOptions
    options,                \* InlineOptions[] built so far
    originalFiles,          \* string[] of consumed paths built so far
    hasErrors,              \* the flag of i18nInlineEmittedFiles
    pending,                \* indexes of options the executor has not yielded a result for
    copying,                \* the `ignore` list copyAssets was called with
    returned,               \* the value the promise resolved with, if it did
    trace                   \* calls on the collaborators, in program order

vars == <<emittedFiles, scriptsEntryPointName, initialDisk, disk, outputs, pc, idx, options,
          originalFiles, hasErrors, pending, copying, returned, trace>>

----------------------------------------------------------------------------
(* Bounds of the model.                                                    *)

MaxFiles == 2       \* longest emittedFiles list
MaxDiags == 2       \* most diagnostics the result stream carries in one run

----------------------------------------------------------------------------
(* Values.                                                                 *)

undefined == "<undefined>"
\* An optional value is a sequence of at most one value.
Absent == <<>>
Some(x) == <<x>>

\* An error: its code and the path it is about; code "none" is no error.
Error(code, path) == [code |-> code, path |-> path]
NoError == Error("none", <<>>)

\* Paths are sequences of segments.
emittedPath == <<"emitted">>
baseOutputPath == <<"dist">>
outputPaths == <<<<"dist", "fr">>, <<"dist", "de">>>>
es5 == FALSE
missingTranslation == "error"

Main == [name |-> "main", file |-> <<"main.js">>, asset |-> FALSE, extension |-> ".js"]
Vendor == [name |-> "vendor", file |-> <<"vendor.js">>, asset |-> FALSE, extension |-> ".js"]
Runtime == [name |-> "runtime", file |-> <<"runtime.js">>, asset |-> FALSE, extension |-> ".js"]
Lazy == [name |-> undefined, file |-> <<"lazy", "5.js">>, asset |-> FALSE, extension |-> ".js"]
Styles == [name |-> "styles", file |-> <<"styles.css">>, asset |-> FALSE, extension |-> ".css"]
Worker == [name |-> undefined, file |-> <<"assets", "worker.js">>, asset |-> TRUE, extension |-> ".js"]
\* The entries of the assets of the build for the source map of main.js and
\* for main.js itself.
MainMap == [name |-> undefined, file |-> <<"main.js.map">>, asset |-> TRUE, extension |-> ".map"]
MainAsset == [name |-> undefined, file |-> <<"main.js">>, asset |-> TRUE, extension |-> ".js"]

\* The artifacts of a build, in the order the build emits them.
Catalogue == <<Main, Vendor, Runtime, Lazy, Styles, Worker, MainMap, MainAsset>>

\* The emitted files that have a source map next to them in some builds.
WithSourceMap == {Main, Runtime}

SeqsUpTo(S, n) == UNION {[1..k -> S] : k \in 0..n}

\* The lists of at most n artifacts in the order of c; an artifact may repeat.
ListsOf(c, n) ==
    {[i \in DOMAIN ix |-> c[ix[i]]]
        : ix \in {jx \in SeqsUpTo(DOMAIN c, n)
                    : \A i \in DOMAIN jx : i = 1 \/ jx[i - 1] <= jx[i]}}

Range(s) == {s[i] : i \in DOMAIN s}

----------------------------------------------------------------------------
(* path and fs.                                                            *)

PathJoin(a, b) == a \o b

IsPrefix(a, b) == Len(a) <= Len(b) /\ SubSeq(b, 1, Len(a)) = a

\* path.relative(from, to) for a `to` below `from`
PathRelative(from, to) ==
    IF IsPrefix(from, to) THEN SubSeq(to, Len(from) + 1, Len(to))
    ELSE <<"..">> \o to

\* originalPath + '.map'
MapPath(p) == [p EXCEPT ![Len(p)] = @ \o ".map"]

\* The content of the file at path p.
Content(p) == <<"content", p>>

ReadOutcomes(d, p) == IF p \in d THEN {"ok", "EACCES"} ELSE {"ENOENT"}

\* The files another process may hold, so that their unlink fails.
Lockable == {PathJoin(emittedPath, Main.file), MapPath(PathJoin(emittedPath, Main.file))}

UnlinkOutcomes(d, p) ==
    IF p \notin d THEN {"ENOENT"}
    ELSE IF p \in Lockable THEN {"ok", "EPERM"}
    ELSE {"ok"}

Call(op, arg, res) == [op |-> op, arg |-> arg, res |-> res]

----------------------------------------------------------------------------
(* emittedFilesToInlineOptions.                                            *)

Includes(list, x) == \E i \in DOMAIN list : list[i] = x

\* JavaScript truthiness of an optional string
Truthy(v) == v # undefined /\ v # ""

\* A condition that lets assets through.
SkippedUnlessAsset(emittedFile, names) ==
    \/ emittedFile.extension # ".js"
    \/ (Truthy(emittedFile.name) /\ Includes(names, emittedFile.name))

\* A condition that lets every extension through.
SkippedWhateverExtension(emittedFile, names) ==
    \/ emittedFile.asset
    \/ (Truthy(emittedFile.name) /\ Includes(names, emittedFile.name))

\* The condition of the `continue` of the loop.
Skipped(emittedFile, names) ==
    \/ emittedFile.asset
    \/ emittedFile.extension # ".js"
    \/ (Truthy(emittedFile.name) /\ Includes(names, emittedFile.name))

\* A flag that is set for every artifact with a name.
SetLocaleWhenNamed(name) == name # undefined

SetLocale(name) == name = "main" \/ name = "vendor"

UnableToDelete(p, e) == Call("logger.debug", <<"Unable to delete i18n temporary file", p>>, e)

\* A read whose file is unlinked whether or not the read returned.
ReadAndRemoveAlways(d, p) ==
    UNION {
        {[err |-> IF r = "ok" THEN "none" ELSE r,
          disk |-> IF u = "ok" THEN d \ {p} ELSE d,
          calls |-> <<Call("readFileSync", p, r), Call("unlinkSync", p, u)>>
                    \o (IF u = "ok" THEN <<>> ELSE <<UnableToDelete(p, u)>>)]
         : u \in UnlinkOutcomes(d, p)}
        : r \in ReadOutcomes(d, p)}

\* A read that leaves the file in place.
ReadWithoutRemove(d, p) ==
    {[err |-> IF r = "ok" THEN "none" ELSE r,
      disk |-> d,
      calls |-> <<Call("readFileSync", p, r)>>]
     : r \in ReadOutcomes(d, p)}

\* A read followed by an unlink whose error is not caught.
ReadAndRemoveOrThrow(d, p) ==
    UNION {
        IF r # "ok"
        THEN {[err |-> r, disk |-> d, calls |-> <<Call("readFileSync", p, r)>>]}
        ELSE {[err |-> IF u = "ok" THEN "none" ELSE u,
               disk |-> IF u = "ok" THEN d \ {p} ELSE d,
               calls |-> <<Call("readFileSync", p, "ok"), Call("unlinkSync", p, u)>>]
              : u \in UnlinkOutcomes(d, p)}
        : r \in ReadOutcomes(d, p)}

\* fs.readFileSync(p) followed, when it returned, by fs.unlinkSync(p) in a
\* try whose catch logs: the outcomes on disk d, each with the error that
\* propagates (or "none"), the disk afterwards and the calls made.
ReadAndRemove(d, p) ==
    UNION {
        IF r # "ok"
        THEN {[err |-> r, disk |-> d, calls |-> <<Call("readFileSync", p, r)>>]}
        ELSE {[err |-> "none",
               disk |-> IF u = "ok" THEN d \ {p} ELSE d,
               calls |-> <<Call("readFileSync", p, "ok"), Call("unlinkSync", p, u)>>
                         \o (IF u = "ok" THEN <<>> ELSE <<UnableToDelete(p, u)>>)]
              : u \in UnlinkOutcomes(d, p)}
        : r \in ReadOutcomes(d, p)}

InlineOptions(emittedFile, originalPath, map) ==
    [filename |-> emittedFile.file,
     code |-> Content(originalPath),
     es5 |-> es5,
     outputPath |-> baseOutputPath,
     missingTranslation |-> missingTranslation,
     setLocale |-> SetLocale(emittedFile.name),
     map |-> map]

Queued(action) == Call("logger.debug", <<"i18n file queued for processing", action.filename>>, "ok")

\* An iteration that moves on to the next artifact when the primary file
\* cannot be read.
ConsumeSkippingUnreadable(emittedFile, d) ==
    LET originalPath == PathJoin(emittedPath, emittedFile.file)
    IN {[err |-> NoError, disk |-> d,
         calls |-> <<Call("readFileSync", originalPath, r)>>
                   \o (IF r = "ok"
                       THEN <<Queued(InlineOptions(emittedFile, originalPath, Absent))>>
                       ELSE <<>>),
         files |-> IF r = "ok" THEN <<originalPath>> ELSE <<>>,
         action |-> IF r = "ok"
                    THEN Some(InlineOptions(emittedFile, originalPath, Absent))
                    ELSE Absent]
        : r \in ReadOutcomes(d, originalPath)}

\* An iteration that logs every error of the map file and goes on without
\* the map.
ConsumeLoggingMapErrors(emittedFile, d) ==
    LET originalPath == PathJoin(emittedPath, emittedFile.file)
        originalMapPath == MapPath(originalPath)
    IN UNION {
        IF p.err # "none"
        THEN {[err |-> Error(p.err, originalPath), disk |-> p.disk, calls |-> p.calls,
               files |-> <<>>, action |-> Absent]}
        ELSE {
            IF m.err # "none"
            THEN LET action == InlineOptions(emittedFile, originalPath, Absent)
                 IN [err |-> NoError, disk |-> m.disk,
                     calls |-> p.calls \o m.calls
                               \o (IF m.err = "ENOENT" THEN <<>>
                                   ELSE <<UnableToDelete(originalMapPath, m.err)>>)
                               \o <<Queued(action)>>,
                     files |-> <<originalPath>>, action |-> Some(action)]
            ELSE LET action == InlineOptions(emittedFile, originalPath, Some(Content(originalMapPath)))
                 IN [err |-> NoError, disk |-> m.disk,
                     calls |-> p.calls \o m.calls \o <<Queued(action)>>,
                     files |-> <<originalPath, originalMapPath>>, action |-> Some(action)]
            : m \in ReadAndRemove(p.disk, originalMapPath)}
        : p \in ReadAndRemove(d, originalPath)}

\* One iteration of the loop for an artifact that is not skipped: the
\* outcomes on disk d.  err is the error thrown out of the function, or
\* "none"; files are the paths pushed to originalFiles; action is the
\* InlineOptions pushed to options.
Consume(emittedFile, d) ==
    LET originalPath == PathJoin(emittedPath, emittedFile.file)
        originalMapPath == MapPath(originalPath)
    IN UNION {
        IF p.err # "none"
        THEN {[err |-> Error(p.err, originalPath), disk |-> p.disk, calls |-> p.calls,
               files |-> <<>>, action |-> Absent]}
        ELSE {
            IF m.err = "ENOENT"
            THEN LET action == InlineOptions(emittedFile, originalPath, Absent)
                 IN [err |-> NoError, disk |-> m.disk,
                     calls |-> p.calls \o m.calls \o <<Queued(action)>>,
                     files |-> <<originalPath>>, action |-> Some(action)]
            ELSE IF m.err # "none"
            THEN [err |-> Error(m.err, originalMapPath), disk |-> m.disk,
                  calls |-> p.calls \o m.calls,
                  files |-> <<originalPath>>, action |-> Absent]
            ELSE LET action == InlineOptions(emittedFile, originalPath, Some(Content(originalMapPath)))
                 IN [err |-> NoError, disk |-> m.disk,
                     calls |-> p.calls \o m.calls \o <<Queued(action)>>,
                     files |-> <<originalPath, originalMapPath>>, action |-> Some(action)]
            : m \in ReadAndRemove(p.disk, originalMapPath)}
        : p \in ReadAndRemove(d, originalPath)}

----------------------------------------------------------------------------
(* i18nInlineEmittedFiles.                                                 *)

\* The finally block.
Finally(tr) == Append(tr, Call("executor.stop", <<>>, "ok"))

\* A catch block that returns with the executor left running.
CaughtUnreleased(tr, err) ==
    Append(Append(tr, Call("spinner.fail", <<"Localized bundle generation failed: ", err>>, "ok")),
           Call("return", <<FALSE>>, "ok"))

\* The catch block, the finally block and the return of the catch block.
Caught(tr, err) ==
    Append(Finally(Append(tr, Call("spinner.fail", <<"Localized bundle generation failed: ", err>>, "ok"))),
           Call("return", <<FALSE>>, "ok"))

\* A flag that follows the last diagnostic seen.
FlagOfLast(he, diagnostic) == diagnostic.type = "error"

\* The body of the inner loop for one diagnostic: the flag afterwards.
Flag(he, diagnostic) == IF diagnostic.type = "error" THEN TRUE ELSE he

\* A report that puts every diagnostic on the warning channel.
ReportAsWarning(diagnostic) == Call("logger.warn", diagnostic.message, "ok")

Report(diagnostic) ==
    IF diagnostic.type = "error"
    THEN Call("logger.error", diagnostic.message, "ok")
    ELSE Call("logger.warn", diagnostic.message, "ok")

RECURSIVE Aggregate(_, _)
\* The inner loop over result.diagnostics, from flag he: for each diagnostic
\* spinner.stop(), the report, spinner.start().
Aggregate(he, diagnostics) ==
    IF diagnostics = <<>> THEN [hasErrors |-> he, calls |-> <<>>]
    ELSE LET rest == Aggregate(Flag(he, Head(diagnostics)), Tail(diagnostics))
         IN [hasErrors |-> rest.hasErrors,
             calls |-> <<Call("spinner.stop", <<>>, "ok"),
                         Report(Head(diagnostics)),
                         Call("spinner.start", <<>>, "ok")>> \o rest.calls]

\* The statements after the try statement.
Verdict(tr, he) ==
    Append(Append(tr,
                  IF he THEN Call("spinner.fail", <<"Localized bundle generation failed.">>, "ok")
                  ELSE Call("spinner.succeed", <<"Localized bundle generation complete.">>, "ok")),
           Call("return", <<~he>>, "ok"))

\* An `ignore` option that lists every emitted file.
IgnoreEmitted(processedFiles) == [i \in DOMAIN emittedFiles |-> emittedFiles[i].file]

\* The `ignore` option of the copyAssets call.
Ignore(processedFiles) == [i \in DOMAIN processedFiles |-> PathRelative(emittedPath, processedFiles[i])]

----------------------------------------------------------------------------
(* The collaborators.                                                      *)

IsDiagnosticCall(c) == c.op = "logger.error" \/ c.op = "logger.warn"

Reported == Len(SelectSeq(trace, IsDiagnosticCall))

DiagnosticTypes == {"error", "warning"}

\* The diagnostics a result for `file` may carry when n more fit the bound.
Diagnostics(file, n) ==
    {[i \in DOMAIN t |-> [type |-> t[i], message |-> <<file, i>>]]
        : t \in SeqsUpTo(DiagnosticTypes, n)}

RECURSIVE SetToSeq(_)
SetToSeq(S) ==
    IF S = {} THEN <<>>
    ELSE LET x == CHOOSE y \in S : TRUE IN <<x>> \o SetToSeq(S \ {x})

\* copyAssets with glob '**/*' below `input`: the files it copies, relative
\* to `input`.
Globbed(d, input, ignore) ==
    {PathRelative(input, p) : p \in {q \in d : IsPrefix(input, q)}} \ Range(ignore)

\* The writes of copyAssets, one per file and base path, in the order made.
CopyJobs(d, input, ignore, basePaths) ==
    LET files == SetToSeq(Globbed(d, input, ignore))
        n == Len(basePaths)
    IN [j \in 1..(Len(files) * n) |->
            LET f == files[((j - 1) \div n) + 1]
            IN <<basePaths[((j - 1) % n) + 1], f, Content(PathJoin(input, f))>>]

----------------------------------------------------------------------------
(* The state machine.                                                      *)

Init ==
    /\ emittedFiles \in ListsOf(Catalogue, MaxFiles)
    \* an excluded name that no listed artifact has changes nothing (line 36)
    /\ scriptsEntryPointName \in (IF Runtime \in Range(emittedFiles)
                                  THEN {<<>>, <<"runtime">>} ELSE {<<>>})
    /\ disk \in SUBSET ({PathJoin(emittedPath, a.file) : a \in Range(emittedFiles)}
                        \cup {MapPath(PathJoin(emittedPath, a.file))
                                : a \in Range(emittedFiles) \cap WithSourceMap})
    /\ initialDisk = disk
    /\ outputs = {}
    /\ pc = "Idle"
    /\ idx = 1
    /\ options = <<>>
    /\ originalFiles = <<>>
    /\ hasErrors = FALSE
    /\ pending = {}
    /\ copying = <<>>
    /\ returned = Absent
    /\ trace = <<>>

\* new BundleActionExecutor, spinner.start and the entry of the try block
Start ==
    /\ pc = "Idle"
    /\ pc' = "Consuming"
    /\ trace' = trace \o <<Call("new BundleActionExecutor", <<>>, "ok"),
                           Call("spinner.start", <<"Generating localized bundles...">>, "ok")>>
    /\ UNCHANGED <<emittedFiles, scriptsEntryPointName, initialDisk, disk, outputs, idx, options,
                   originalFiles, hasErrors, pending, copying, returned>>

\* new BundleActionExecutor throws: the promise is rejected
ConstructorThrows ==
    /\ pc = "Idle"
    /\ pc' = "Rejected"
    /\ trace' = Append(trace, Call("new BundleActionExecutor", <<>>, "throw"))
    /\ UNCHANGED <<emittedFiles, scriptsEntryPointName, initialDisk, disk, outputs, idx, options,
                   originalFiles, hasErrors, pending, copying, returned>>

\* one iteration of the loop of emittedFilesToInlineOptions
ConsumeFile ==
    /\ pc = "Consuming"
    /\ idx <= Len(emittedFiles)
    /\ IF Skipped(emittedFiles[idx], scriptsEntryPointName)
       THEN /\ idx' = idx + 1
            /\ UNCHANGED <<disk, pc, options, originalFiles, returned, trace>>
       ELSE \E o \in Consume(emittedFiles[idx], disk) :
            /\ disk' = o.disk
            /\ IF o.err = NoError
               THEN /\ idx' = idx + 1
                    /\ options' = options \o o.action
                    /\ originalFiles' = originalFiles \o o.files
                    /\ trace' = trace \o o.calls
                    /\ UNCHANGED <<pc, returned>>
               ELSE /\ pc' = "Returned"
                    /\ returned' = Some(FALSE)
                    /\ trace' = Caught(trace \o o.calls, o.err)
                    /\ UNCHANGED <<idx, options, originalFiles>>
    /\ UNCHANGED <<emittedFiles, scriptsEntryPointName, initialDisk, outputs, hasErrors, pending, copying>>

\* a submission that leaves out the last request
SubmitAllButLast ==
    /\ pc = "Consuming"
    /\ idx > Len(emittedFiles)
    /\ pc' = "Transforming"
    /\ pending' = DOMAIN options \ {Len(options)}
    /\ trace' = Append(trace, Call("executor.inlineAll",
                                   [i \in 1..(Len(options) - (IF options = <<>> THEN 0 ELSE 1))
                                        |-> options[i].filename], "ok"))
    /\ UNCHANGED <<emittedFiles, scriptsEntryPointName, initialDisk, disk, outputs, idx, options,
                   originalFiles, hasErrors, copying, returned>>

\* a submission that waits for a request to submit
SubmitUnlessEmpty ==
    /\ pc = "Consuming"
    /\ idx > Len(emittedFiles)
    /\ options # <<>>
    /\ pc' = "Transforming"
    /\ pending' = DOMAIN options
    /\ trace' = Append(trace, Call("executor.inlineAll",
                                   [i \in DOMAIN options |-> options[i].filename], "ok"))
    /\ UNCHANGED <<emittedFiles, scriptsEntryPointName, initialDisk, disk, outputs, idx, options,
                   originalFiles, hasErrors, copying, returned>>

\* the return of emittedFilesToInlineOptions and executor.inlineAll(options)
Submit ==
    /\ pc = "Consuming"
    /\ idx > Len(emittedFiles)
    /\ pc' = "Transforming"
    /\ pending' = DOMAIN options
    /\ trace' = Append(trace, Call("executor.inlineAll",
                                   [i \in DOMAIN options |-> options[i].filename], "ok"))
    /\ UNCHANGED <<emittedFiles, scriptsEntryPointName, initialDisk, disk, outputs, idx, options,
                   originalFiles, hasErrors, copying, returned>>

\* a loop body that leaves the loop at the first result with an error
ReceiveResultUntilError ==
    /\ pc = "Transforming"
    /\ \E i \in pending :
       \E diagnostics \in Diagnostics(options[i].filename, MaxDiags - Reported) :
          LET result == [file |-> options[i].filename, diagnostics |-> diagnostics]
              agg == Aggregate(hasErrors, result.diagnostics)
              calls == <<Call("executor.next", <<result>>, "ok"),
                         Call("logger.debug", <<"i18n file processed", result.file>>, "ok")>>
                       \o agg.calls
          IN /\ pending' = pending \ {i}
             /\ hasErrors' = agg.hasErrors
             /\ IF agg.hasErrors
                THEN /\ pc' = "Reconciling"
                     /\ copying' = Ignore(originalFiles)
                     /\ trace' = Append(trace \o calls,
                                        Call("copyAssets", Ignore(originalFiles), "called"))
                ELSE /\ trace' = trace \o calls
                     /\ UNCHANGED <<pc, copying>>
    /\ UNCHANGED <<emittedFiles, scriptsEntryPointName, initialDisk, disk, outputs, idx, options,
                   originalFiles, returned>>

\* the body of the for await loop for the next result of the stream
ReceiveResult ==
    /\ pc = "Transforming"
    /\ \E i \in pending :
       \E diagnostics \in Diagnostics(options[i].filename, MaxDiags - Reported) :
          LET result == [file |-> options[i].filename, diagnostics |-> diagnostics]
              agg == Aggregate(hasErrors, result.diagnostics)
          IN /\ pending' = pending \ {i}
             /\ hasErrors' = agg.hasErrors
             /\ trace' = trace
                         \o <<Call("executor.next", <<result>>, "ok"),
                              Call("logger.debug", <<"i18n file processed", result.file>>, "ok")>>
                         \o agg.calls
    /\ UNCHANGED <<emittedFiles, scriptsEntryPointName, initialDisk, disk, outputs, pc, idx, options,
                   originalFiles, copying, returned>>

\* the stream throws instead of yielding
StreamThrows ==
    /\ pc = "Transforming"
    /\ pc' = "Returned"
    /\ returned' = Some(FALSE)
    /\ trace' = Caught(Append(trace, Call("executor.next", <<>>, "throw")), Error("EXECUTOR", <<>>))
    /\ UNCHANGED <<emittedFiles, scriptsEntryPointName, initialDisk, disk, outputs, idx, options,
                   originalFiles, hasErrors, pending, copying>>

\* an end of the stream that copies only when no error was seen
StreamEndsCopyingOnSuccess ==
    /\ pc = "Transforming"
    /\ pending = {}
    /\ IF hasErrors
       THEN /\ pc' = "Returned"
            /\ returned' = Some(FALSE)
            /\ trace' = Verdict(Finally(Append(trace, Call("executor.next", <<>>, "done"))),
                                hasErrors)
            /\ UNCHANGED copying
       ELSE /\ pc' = "Reconciling"
            /\ copying' = Ignore(originalFiles)
            /\ trace' = trace \o <<Call("executor.next", <<>>, "done"),
                                   Call("copyAssets", Ignore(originalFiles), "called")>>
            /\ UNCHANGED returned
    /\ UNCHANGED <<emittedFiles, scriptsEntryPointName, initialDisk, disk, outputs, idx, options,
                   originalFiles, hasErrors, pending>>

\* a copy that starts while results are still to come
StreamEndsWithResultsPending ==
    /\ pc = "Transforming"
    /\ pc' = "Reconciling"
    /\ copying' = Ignore(originalFiles)
    /\ trace' = trace \o <<Call("executor.next", <<>>, "done"),
                           Call("copyAssets", Ignore(originalFiles), "called")>>
    /\ UNCHANGED <<emittedFiles, scriptsEntryPointName, initialDisk, disk, outputs, idx, options,
                   originalFiles, hasErrors, pending, returned>>

\* the stream ends and copyAssets is called
StreamEnds ==
    /\ pc = "Transforming"
    /\ pending = {}
    /\ pc' = "Reconciling"
    /\ copying' = Ignore(originalFiles)
    /\ trace' = trace \o <<Call("executor.next", <<>>, "done"),
                           Call("copyAssets", Ignore(originalFiles), "called")>>
    /\ UNCHANGED <<emittedFiles, scriptsEntryPointName, initialDisk, disk, outputs, idx, options,
                   originalFiles, hasErrors, pending, returned>>

\* copyAssets resolves; the finally block and the statements after the try
CopyResolves ==
    /\ pc = "Reconciling"
    /\ outputs' = outputs \cup Range(CopyJobs(disk, emittedPath, copying, outputPaths))
    /\ pc' = "Returned"
    /\ returned' = Some(~hasErrors)
    /\ trace' = Verdict(Finally(Append(trace, Call("copyAssets", copying, "ok"))), hasErrors)
    /\ UNCHANGED <<emittedFiles, scriptsEntryPointName, initialDisk, disk, idx, options,
                   originalFiles, hasErrors, pending, copying>>

\* copyAssets rejects after some of its writes
CopyRejects ==
    /\ pc = "Reconciling"
    /\ LET jobs == CopyJobs(disk, emittedPath, copying, outputPaths)
       IN \E n \in 0..Len(jobs) :
            /\ n < Len(jobs) \/ jobs = <<>>
            /\ outputs' = outputs \cup Range(SubSeq(jobs, 1, n))
    /\ pc' = "Returned"
    /\ returned' = Some(FALSE)
    /\ trace' = Caught(Append(trace, Call("copyAssets", copying, "throw")), Error("ECOPY", <<>>))
    /\ UNCHANGED <<emittedFiles, scriptsEntryPointName, initialDisk, disk, idx, options,
                   originalFiles, hasErrors, pending, copying>>

Next ==
    \/ Start
    \/ ConstructorThrows
    \/ ConsumeFile
    \/ Submit
    \/ ReceiveResult
    \/ StreamThrows
    \/ StreamEnds
    \/ CopyResolves
    \/ CopyRejects

Spec == Init /\ [][Next]_vars

\* The function goes on while it has a statement to run; the stream of the
\* executor eventually yields, ends or throws; copyAssets eventually resolves
\* or rejects.
FairSpec ==
    /\ Spec
    /\ WF_vars(ConsumeFile \/ Submit)
    /\ WF_vars(ReceiveResult \/ StreamThrows \/ StreamEnds)
    /\ WF_vars(CopyResolves \/ CopyRejects)

----------------------------------------------------------------------------
(* What a run did, read off the trace.                                     *)

Made(op) == {i \in DOMAIN trace : trace[i].op = op}

\* The positions of the results the stream yielded.
Yields == {i \in Made("executor.next") : trace[i].res = "ok"}

ResultAt(i) == trace[i].arg[1]

HasError(result) ==
    \E k \in DOMAIN result.diagnostics : result.diagnostics[k].type = "error"

HasWarning(result) ==
    \E k \in DOMAIN result.diagnostics : result.diagnostics[k].type = "warning"

ErrorReceived == \E i \in Yields : HasError(ResultAt(i))

\* The artifacts the loop does not skip.
Eligible(a) ==
    /\ ~a.asset
    /\ a.extension = ".js"
    /\ (a.name = undefined \/ a.name \notin Range(scriptsEntryPointName))

\* The paths of the files of the eligible artifacts, and of their maps.
PrimaryPaths ==
    {PathJoin(emittedPath, a.file) : a \in {b \in Range(emittedFiles) : Eligible(b)}}

MapPaths == {MapPath(p) : p \in PrimaryPaths}

\* The failed reads that are exceptions to the caller of readFileSync.
FailedReads ==
    {i \in Made("readFileSync") :
        /\ trace[i].res # "ok"
        /\ ~(trace[i].res = "ENOENT" /\ trace[i].arg \in MapPaths)}

StreamThrew == \E i \in Made("executor.next") : trace[i].res = "throw"

CopyThrew == \E i \in Made("copyAssets") : trace[i].res = "throw"

CopyDone == \E i \in Made("copyAssets") : trace[i].res = "ok"

FatalOccurred == FailedReads # {} \/ StreamThrew \/ CopyThrew

----------------------------------------------------------------------------
(* The claims.                                                             *)

\* C1: the function returns true if and only if no result of the stream
\* carried a diagnostic of type 'error' and no exception was raised by the
\* consumption, by the stream or by the copy.
C1_TrueIffNoErrorAndNoFatal ==
    pc = "Returned" =>
        (returned = Some(TRUE) <=> (~ErrorReceived /\ ~FatalOccurred))

\* A run with two results, one with a single error diagnostic and one with
\* none, that copied and returned false.
C1_Witness ==
    /\ pc = "Returned"
    /\ returned = Some(FALSE)
    /\ ~FatalOccurred
    /\ CopyDone
    /\ \E i, j \in Yields :
        /\ i < j
        /\ Len(ResultAt(i).diagnostics) = 1
        /\ HasError(ResultAt(i))
        /\ ResultAt(j).diagnostics = <<>>

\* C2: once the executor is constructed it is not stopped while the function
\* runs, and when the function has returned executor.stop() was called
\* exactly once, after every read, result and copy and before the return.
C2_ReleasedExactlyOnce ==
    /\ pc \in {"Consuming", "Transforming", "Reconciling"} => Made("executor.stop") = {}
    /\ pc = "Returned" =>
        /\ Cardinality(Made("executor.stop")) = 1
        /\ Cardinality(Made("return")) = 1
        /\ \A i \in Made("executor.stop") :
            /\ \A j \in Made("return") : i < j
            /\ \A j \in Made("readFileSync") \cup Made("unlinkSync") \cup Made("executor.inlineAll")
                        \cup Made("executor.next") \cup Made("copyAssets") : j < i

\* The stream threw after it had yielded a result, and the function returned.
C2_Witness ==
    /\ pc = "Returned"
    /\ StreamThrew
    /\ Yields # {}
    /\ Cardinality(Made("executor.stop")) = 1

\* The files left under emittedPath that the consumer did not record.
NotConsumed == disk \ Range(originalFiles)

\* File p is in output root `base` with the content it has under emittedPath.
CopiedTo(base, p) == <<base, PathRelative(emittedPath, p), Content(p)>> \in outputs

\* C3: when the stream ends without throwing, copyAssets is called with the
\* consumed paths as its ignore list, whatever the flag; when it resolves,
\* every file that was not consumed is in every output root, and the function
\* returns false if a result carried an error.
C3_CopyWhateverTheVerdict ==
    /\ (pc = "Returned" /\ Made("executor.inlineAll") # {} /\ ~StreamThrew) =>
        \E i \in Made("copyAssets") :
            trace[i].res = "called" /\ trace[i].arg = Ignore(originalFiles)
    /\ (pc = "Returned" /\ CopyDone) =>
        /\ \A b \in DOMAIN outputPaths : \A p \in NotConsumed : CopiedTo(outputPaths[b], p)
        /\ ErrorReceived => returned = Some(FALSE)

\* A result carried an error, and a file that was not consumed is in both
\* output roots when the function has returned false.
C3_Witness ==
    /\ pc = "Returned"
    /\ returned = Some(FALSE)
    /\ ErrorReceived
    /\ CopyDone
    /\ \E p \in NotConsumed : \A b \in DOMAIN outputPaths : CopiedTo(outputPaths[b], p)

\* C4: the flag is set exactly when some result received so far carried an
\* error; every result received is followed in the log by each of its
\* diagnostics, each between spinner.stop and spinner.start; and the loop is
\* left only when the stream has ended, after a result for every request.
C4_CumulativeAggregation ==
    /\ hasErrors <=> ErrorReceived
    /\ \A i \in Yields :
        LET ds == ResultAt(i).diagnostics
        IN /\ i + 1 + 3 * Len(ds) <= Len(trace)
           /\ \A k \in DOMAIN ds :
                LET c == trace[i + 3 * k]
                IN /\ c.op = (IF ds[k].type = "error" THEN "logger.error" ELSE "logger.warn")
                   /\ c.arg = ds[k].message
    /\ \A i \in Made("copyAssets") :
        /\ Cardinality(Yields) = Len(options)
        /\ \E j \in Made("executor.next") : j < i /\ trace[j].res = "done"

\* A result with an error was followed by a result with a warning, both
\* reported, and the function returned.
C4_Witness ==
    /\ pc = "Returned"
    /\ CopyDone
    /\ \E i, j \in Yields :
        /\ i < j
        /\ HasError(ResultAt(i))
        /\ HasWarning(ResultAt(j))
        /\ ~HasError(ResultAt(j))

\* The failed reads of the primary file of an artifact.
FailedPrimaryReads == {i \in FailedReads : trace[i].arg \in PrimaryPaths}

\* C5: when the read of a primary file fails, the function has returned
\* false with nothing submitted to the executor, no result taken, no copy
\* made, and the executor stopped once.
C5_PrimaryReadFailureAborts ==
    FailedPrimaryReads # {} =>
        /\ pc = "Returned"
        /\ returned = Some(FALSE)
        /\ Made("executor.inlineAll") = {}
        /\ Made("executor.next") = {}
        /\ Made("copyAssets") = {}
        /\ outputs = {}
        /\ Cardinality(Made("executor.stop")) = 1

\* The primary file of the second artifact was not found after the first
\* artifact had been read and deleted.
C5_Witness ==
    /\ pc = "Returned"
    /\ \E i \in FailedPrimaryReads :
        /\ trace[i].res = "ENOENT"
        /\ \E j \in Made("unlinkSync") : j < i /\ trace[j].res = "ok"

\* Path p was recorded as consumed and its content is in a request that was
\* submitted to the executor.
Handed(p) ==
    /\ p \in Range(originalFiles)
    /\ \E i \in DOMAIN options :
        /\ options[i].code = Content(p) \/ options[i].map = Some(Content(p))
        /\ \E j \in Made("executor.inlineAll") : Includes(trace[j].arg, options[i].filename)

\* C6: when copyAssets has resolved and the function returned, every file
\* that was under emittedPath at the call was handed to the executor or is in
\* every output root.
C6_CoverageWithoutOmission ==
    (pc = "Returned" /\ CopyDone) =>
        \A b \in DOMAIN outputPaths : \A p \in initialDisk :
            Handed(p) \/ CopiedTo(outputPaths[b], p)

\* A run that handed one file to the executor and copied another.
C6_Witness ==
    /\ pc = "Returned"
    /\ CopyDone
    /\ \E p, q \in initialDisk :
        /\ Handed(p)
        /\ ~Handed(q)
        /\ \A b \in DOMAIN outputPaths : CopiedTo(outputPaths[b], q)

\* The artifacts the classifier must leave alone.
Excluded(a) == a.asset \/ a.name \in Range(scriptsEntryPointName)

Untouched(a) ==
    LET p == PathJoin(emittedPath, a.file)
    IN /\ \A i \in DOMAIN options : options[i].filename # a.file
       /\ \A i \in Made("readFileSync") \cup Made("unlinkSync") : trace[i].arg # p
       /\ \A i \in Made("executor.inlineAll") : ~Includes(trace[i].arg, a.file)

\* C7 as stated: an asset or excluded entry point is never read, deleted or
\* submitted, and when the function has returned its file is in every output
\* root.
C7_AlwaysInEveryOutputRoot ==
    \A i \in DOMAIN emittedFiles :
        LET a == emittedFiles[i]
            p == PathJoin(emittedPath, a.file)
        IN Excluded(a) =>
            /\ Untouched(a)
            /\ (pc = "Returned" /\ p \in initialDisk) =>
                \A b \in DOMAIN outputPaths : CopiedTo(outputPaths[b], p)

\* C7 amended: an asset or excluded entry point whose file is neither the
\* file nor the map of an eligible artifact of the list is never read,
\* deleted or submitted, and when copyAssets has resolved its file,
\* unchanged on disk, is in every output root; one whose file is the file or
\* the map of an eligible artifact is consumed with that artifact, and when
\* copyAssets has resolved it is in no output root; and nothing is in an
\* output root before copyAssets is called.
C7_InEveryOutputRootWhenCopied ==
    /\ \A i \in DOMAIN emittedFiles :
        LET a == emittedFiles[i]
            p == PathJoin(emittedPath, a.file)
        IN Excluded(a) =>
            IF p \notin PrimaryPaths \cup MapPaths
            THEN /\ Untouched(a)
                 /\ p \in initialDisk => p \in disk
                 /\ (pc = "Returned" /\ CopyDone /\ p \in initialDisk) =>
                        \A b \in DOMAIN outputPaths : CopiedTo(outputPaths[b], p)
            ELSE (CopyDone /\ p \in initialDisk) =>
                    /\ p \in Range(originalFiles)
                    /\ \E j \in Made("readFileSync") : trace[j].arg = p /\ trace[j].res = "ok"
                    /\ \E j \in Made("unlinkSync") : trace[j].arg = p
                    /\ \A j \in Made("copyAssets") : Includes(trace[j].arg, a.file)
                    /\ \A o \in outputs : o[2] # a.file
    /\ Made("copyAssets") = {} => outputs = {}

\* The asset entry for main.js.map was read and deleted as the map of main.js
\* and the copy, which resolved, left it out of the output roots.
C7_ConsumedWithItsScript ==
    /\ pc = "Returned"
    /\ CopyDone
    /\ emittedFiles = <<Main, MainMap>>
    /\ PathJoin(emittedPath, MainMap.file) \in initialDisk \ disk
    /\ options # <<>>
    /\ options[1].map = Some(Content(PathJoin(emittedPath, MainMap.file)))
    /\ outputs = {}

\* The excluded runtime script was copied to both output roots by a run that
\* consumed another script.
C7_Witness ==
    /\ pc = "Returned"
    /\ CopyDone
    /\ options # <<>>
    /\ \E i \in DOMAIN emittedFiles :
        LET a == emittedFiles[i]
            p == PathJoin(emittedPath, a.file)
        IN /\ a.name \in Range(scriptsEntryPointName)
           /\ p \in initialDisk
           /\ \A b \in DOMAIN outputPaths : CopiedTo(outputPaths[b], p)

\* The rule of the classifier, on the artifact's fields.
\* The artifacts the loop has gone through.
Visited == SubSeq(emittedFiles, 1, idx - 1)

\* C8: the requests are, in order, one for each eligible artifact the loop
\* has gone through, each with the artifact's file name and the content of
\* its file, and no other; when the loop has ended, that is one request for
\* each eligible artifact of emittedFiles.
C8_OneRequestPerEligibleArtifact ==
    LET eligible == SelectSeq(Visited, Eligible)
    IN /\ Len(options) = Len(eligible)
       /\ \A i \in DOMAIN options :
            /\ options[i].filename = eligible[i].file
            /\ options[i].code = Content(PathJoin(emittedPath, eligible[i].file))
       /\ Made("executor.inlineAll") # {} => idx = Len(emittedFiles) + 1
       /\ \A j \in Made("executor.inlineAll") :
            trace[j].arg = [i \in DOMAIN options |-> options[i].filename]

\* The loop ended with a request for a script without a name and none for
\* the other artifact of the list.
C8_Witness ==
    /\ Made("executor.inlineAll") # {}
    /\ Len(emittedFiles) = 2
    /\ Len(options) = 1
    /\ \E i \in DOMAIN emittedFiles :
        emittedFiles[i].name = undefined /\ emittedFiles[i].file = options[1].filename

\* C9: a delete is attempted only on a path whose read has just returned;
\* every consumed path was read; copyAssets is called with every consumed
\* path in its ignore list, and no output root holds a consumed path.
C9_ReadBeforeDeleteAndNeverCopied ==
    /\ \A i \in Made("unlinkSync") :
        /\ i > 1
        /\ trace[i - 1].op = "readFileSync"
        /\ trace[i - 1].arg = trace[i].arg
        /\ trace[i - 1].res = "ok"
    /\ \A k \in DOMAIN originalFiles :
        /\ \E j \in Made("readFileSync") :
            trace[j].arg = originalFiles[k] /\ trace[j].res = "ok"
        /\ \A i \in Made("copyAssets") :
            Includes(trace[i].arg, PathRelative(emittedPath, originalFiles[k]))
        /\ \A o \in outputs : o[2] # PathRelative(emittedPath, originalFiles[k])

\* A consumed file whose delete failed is still on disk after a copy that
\* put other files in the output roots.
C9_Witness ==
    /\ pc = "Returned"
    /\ CopyDone
    /\ outputs # {}
    /\ \E k \in DOMAIN originalFiles : originalFiles[k] \in disk

\* The calls of the step being taken.
NewCalls == SubSeq(trace', Len(trace) + 1, Len(trace'))

\* p is gone, or its delete failed and the failure was logged.
RemovedOrLogged(p) ==
    IF \E i \in DOMAIN NewCalls :
            NewCalls[i].op = "unlinkSync" /\ NewCalls[i].arg = p /\ NewCalls[i].res # "ok"
    THEN /\ p \in disk'
         /\ \E i \in DOMAIN NewCalls :
                /\ NewCalls[i].op = "logger.debug"
                /\ NewCalls[i].arg = <<"Unable to delete i18n temporary file", p>>
    ELSE p \notin disk'

\* The step is the iteration of the loop for an eligible artifact whose
\* primary file was read.
ReadsPrimary ==
    /\ pc = "Consuming"
    /\ idx <= Len(emittedFiles)
    /\ Eligible(emittedFiles[idx])
    /\ Len(trace') > Len(trace)
    /\ NewCalls[1] = Call("readFileSync", PathJoin(emittedPath, emittedFiles[idx].file), "ok")

MapWasRead ==
    \E i \in DOMAIN NewCalls :
        /\ NewCalls[i].op = "readFileSync"
        /\ NewCalls[i].arg = MapPath(PathJoin(emittedPath, emittedFiles[idx].file))
        /\ NewCalls[i].res = "ok"

\* The iteration added a request for the artifact, with map m.
Requested(m) ==
    /\ pc' = pc
    /\ idx' = idx + 1
    /\ Len(options') = Len(options) + 1
    /\ options'[Len(options')].filename = emittedFiles[idx].file
    /\ options'[Len(options')].map = m

\* C10 as stated: in the iteration for an eligible artifact whose file was
\* read, a map file that exists is attached, both files are gone and both
\* paths are recorded; without a map file the request has no map, only the
\* artifact's path is recorded and nothing is thrown.
C10_MapAttachedAndBothRemoved ==
    [][ReadsPrimary =>
        LET p == PathJoin(emittedPath, emittedFiles[idx].file)
            m == MapPath(p)
        IN IF m \in disk
           THEN /\ Requested(Some(Content(m)))
                /\ p \notin disk'
                /\ m \notin disk'
                /\ originalFiles' = originalFiles \o <<p, m>>
           ELSE /\ Requested(Absent)
                /\ originalFiles' = originalFiles \o <<p>>]_vars

\* C10 amended: a map file that exists and is read is attached, both paths
\* are recorded, and each of the two files is gone unless its delete failed,
\* which is logged; a map file that exists and cannot be read ends the
\* function with false; without a map file the request has no map, only the
\* artifact's path is recorded and nothing is thrown.
C10_MapAttachedAndBothConsumed ==
    [][ReadsPrimary =>
        LET p == PathJoin(emittedPath, emittedFiles[idx].file)
            m == MapPath(p)
        IN /\ RemovedOrLogged(p)
           /\ IF m \in disk
              THEN IF MapWasRead
                   THEN /\ Requested(Some(Content(m)))
                        /\ RemovedOrLogged(m)
                        /\ originalFiles' = originalFiles \o <<p, m>>
                   ELSE /\ pc' = "Returned"
                        /\ returned' = Some(FALSE)
                        /\ options' = options
              ELSE /\ Requested(Absent)
                   /\ originalFiles' = originalFiles \o <<p>>]_vars

\* A request carries the content of a map file; the script is gone from the
\* disk, the map file is still there because its delete failed, and both
\* paths are recorded.
C10_Witness ==
    \E i \in DOMAIN emittedFiles :
        LET p == PathJoin(emittedPath, emittedFiles[i].file)
            m == MapPath(p)
        IN /\ \E k \in DOMAIN options : options[k].map = Some(Content(m))
           /\ p \notin disk
           /\ m \in disk
           /\ p \in Range(originalFiles)
           /\ m \in Range(originalFiles)

\* The calls on a map file that ended in an error other than ENOENT.
MapErrors(op) ==
    {i \in Made(op) : trace[i].arg \in MapPaths /\ trace[i].res \notin {"ok", "ENOENT"}}

\* The call at position i was followed by the log of its error and by the
\* queueing of a request.
LoggedAndQueued(i) ==
    /\ i + 2 <= Len(trace)
    /\ trace[i + 1] = UnableToDelete(trace[i].arg, trace[i].res)
    /\ trace[i + 2].op = "logger.debug"
    /\ trace[i + 2].arg[1] = "i18n file queued for processing"

\* The call at position i was followed by the catch block, the finally block
\* and the return of false.
EndedTheFunction(i) ==
    /\ i + 3 = Len(trace)
    /\ trace[i + 1].op = "spinner.fail"
    /\ trace[i + 1].arg[2] = Error(trace[i].res, trace[i].arg)
    /\ trace[i + 2].op = "executor.stop"
    /\ trace[i + 3].op = "return"
    /\ trace[i + 3].arg = <<FALSE>>
    /\ pc = "Returned"
    /\ returned = Some(FALSE)

\* C11 as stated: every error of a read or a delete of a map file, other
\* than the file not existing, is logged and the request of the artifact is
\* queued.
C11_MapErrorsAreLogged ==
    \A i \in MapErrors("readFileSync") \cup MapErrors("unlinkSync") : LoggedAndQueued(i)

\* C11 amended: an error of the delete of a map file is logged and the
\* request of the artifact is queued; an error of the read of a map file,
\* other than the file not existing, is thrown: no request is queued for the
\* artifact and the function returns false.
C11_MapDeleteLoggedMapReadThrown ==
    /\ \A i \in MapErrors("unlinkSync") : LoggedAndQueued(i)
    /\ \A i \in MapErrors("readFileSync") : EndedTheFunction(i)

\* The delete of a map file failed and a later artifact was read, and the
\* read of its map file failed and ended the function.
C11_Witness ==
    /\ \E i \in MapErrors("unlinkSync") : \E j \in Made("readFileSync") :
            j > i /\ trace[j].arg \in PrimaryPaths /\ trace[j].res = "ok"
    /\ \E i \in MapErrors("readFileSync") : EndedTheFunction(i)

\* The deletes of a primary file that failed.
FailedPrimaryDeletes ==
    {i \in Made("unlinkSync") : trace[i].arg \in PrimaryPaths /\ trace[i].res # "ok"}

\* C12: a failed delete of a primary file is logged and the loop goes on to
\* the map file; unless the read of the map file throws, a request with the
\* content read is queued and the path is recorded, so that it is in the
\* ignore list of copyAssets and in no output root; and when the requests
\* are submitted there is one for each eligible artifact.
C12_PrimaryDeleteFailureIsLogged ==
    \A i \in FailedPrimaryDeletes :
        LET p == trace[i].arg
        IN /\ i + 2 <= Len(trace)
           /\ trace[i + 1] = UnableToDelete(p, trace[i].res)
           /\ trace[i + 2].op = "readFileSync"
           /\ trace[i + 2].arg = MapPath(p)
           /\ trace[i + 2].res \in {"ok", "ENOENT"} =>
                /\ p \in Range(originalFiles)
                /\ \E k \in DOMAIN options :
                    /\ options[k].code = Content(p)
                    /\ PathJoin(emittedPath, options[k].filename) = p
                /\ \A j \in Made("copyAssets") :
                    Includes(trace[j].arg, PathRelative(emittedPath, p))
                /\ \A o \in outputs : o[2] # PathRelative(emittedPath, p)
           /\ Made("executor.inlineAll") # {} =>
                Len(options) = Len(SelectSeq(emittedFiles, Eligible))

\* The delete of the first primary file failed, a second artifact was
\* consumed, and the copy left the undeleted file out of the output roots.
C12_Witness ==
    /\ pc = "Returned"
    /\ CopyDone
    /\ Len(options) = 2
    /\ \E i \in FailedPrimaryDeletes :
        /\ trace[i].arg \in disk
        /\ PathJoin(emittedPath, options[1].filename) = trace[i].arg
        /\ options[2].filename # options[1].filename

\* The primary files that were read and then deleted.
ReadAndDeleted ==
    {p \in PrimaryPaths : \E i \in Made("unlinkSync") : trace[i].arg = p /\ trace[i].res = "ok"}

\* The number of times the file p was read, submitted to the executor, and
\* yielded by the stream.
Count(s, x) == Cardinality({i \in DOMAIN s : s[i] = x})

IsSuccessfulRead(c) == c.op = "readFileSync" /\ c.res = "ok"

\* The paths read, in the order of the reads.
PathsRead ==
    LET reads == SelectSeq(trace, IsSuccessfulRead)
    IN [i \in DOMAIN reads |-> reads[i].arg]

IsSubmission(c) == c.op = "executor.inlineAll"

RECURSIVE Flatten(_)
Flatten(ss) == IF ss = <<>> THEN <<>> ELSE Head(ss).arg \o Flatten(Tail(ss))

\* The files submitted by the calls of executor.inlineAll, in order.
FilesSubmitted == Flatten(SelectSeq(trace, IsSubmission))

IsYield(c) == c.op = "executor.next" /\ c.res = "ok"

\* The files of the results the stream yielded, in order.
FilesYielded ==
    LET yields == SelectSeq(trace, IsYield)
    IN [i \in DOMAIN yields |-> yields[i].arg[1].file]

TimesRead(p) == Count(PathsRead, p)

TimesSubmitted(p) == Count(FilesSubmitted, PathRelative(emittedPath, p))

TimesYielded(p) == Count(FilesYielded, PathRelative(emittedPath, p))

\* C13 as stated: when the function has returned, every primary file that
\* was read and deleted was submitted to the executor exactly once.
C13_EveryConsumedArtifactSubmitted ==
    pc = "Returned" => \A p \in ReadAndDeleted : TimesSubmitted(p) = 1

\* C13 amended: executor.inlineAll is called at most once, after the loop
\* has gone through the whole list without a fatal error, and then every
\* primary file is submitted as many times as it was read: once for each
\* eligible entry of the list that names it; the stream yields no file more
\* often than it was submitted, and as often when it ends. A run that ends
\* with a failed read submits nothing, whatever it had read and deleted.
C13_EveryReadSubmittedWhenTheLoopEnds ==
    LET submissions == SelectSeq(trace, IsSubmission)
        read == PathsRead
        submitted == FilesSubmitted
        yielded == FilesYielded
        ended == \E i \in Made("executor.next") : trace[i].res = "done"
    IN /\ Len(submissions) <= 1
       /\ submissions # <<>> =>
            /\ FailedReads = {}
            /\ \A i \in DOMAIN emittedFiles :
                LET f == emittedFiles[i].file
                    p == PathJoin(emittedPath, f)
                IN /\ p \in PrimaryPaths => Count(submitted, f) = Count(read, p)
                   /\ Count(submitted, f) =
                        Cardinality({j \in DOMAIN emittedFiles :
                                        Eligible(emittedFiles[j]) /\ emittedFiles[j].file = f})
                   /\ Count(yielded, f) <= Count(submitted, f)
                   /\ ended => Count(yielded, f) = Count(submitted, f)
       /\ FailedReads # {} => submissions = <<>>
       /\ (pc = "Returned" /\ FailedReads = {}) => submissions # <<>>

\* Two artifacts were read and deleted, both were submitted and yielded, and
\* the function returned.
C13_Witness ==
    /\ pc = "Returned"
    /\ CopyDone
    /\ Cardinality(ReadAndDeleted) = 2
    /\ \A p \in ReadAndDeleted : TimesSubmitted(p) = 1 /\ TimesYielded(p) = 1

\* C14: when the stream has thrown and the function has returned, copyAssets
\* was called before the return.
C14_CopyAttemptedAfterStreamThrows ==
    (pc = "Returned" /\ StreamThrew) =>
        \E i \in Made("copyAssets") : \E j \in Made("return") : i < j

ConstructorThrew == \E i \in Made("new BundleActionExecutor") : trace[i].res = "throw"

\* The function returned false after one failure message that holds the
\* cause.
ReportedAndReturnedFalse ==
    /\ pc = "Returned"
    /\ returned = Some(FALSE)
    /\ Cardinality(Made("spinner.fail")) = 1
    /\ \A i \in Made("spinner.fail") :
        /\ Len(trace[i].arg) = 2
        /\ trace[i].arg[1] = "Localized bundle generation failed: "
        /\ trace[i].arg[2] # NoError

\* Every exception raised inside the try statement ends in one failure
\* message with its cause and the return of false.
CaughtErrorsReported == FatalOccurred => ReportedAndReturnedFalse

\* C15: every fatal error, the failure of the construction of the executor
\* included, ends in one failure message with its cause and the return of
\* false, and no exception leaves the function.
C15_EveryFatalErrorReportedAndFalse ==
    /\ pc # "Rejected"
    /\ (FatalOccurred \/ ConstructorThrew) => ReportedAndReturnedFalse

\* C16: the request of every eligible artifact the loop has gone through
\* has setLocale true if the name of the artifact is 'main' or 'vendor', and
\* false otherwise, the artifact without a name included.
C16_SetLocaleForMainAndVendorOnly ==
    LET eligible == SelectSeq(Visited, Eligible)
    IN \A k \in DOMAIN options :
        /\ k <= Len(eligible)
        /\ options[k].filename = eligible[k].file
        /\ options[k].setLocale = (eligible[k].name \in {"main", "vendor"})
        /\ eligible[k].name = undefined => options[k].setLocale = FALSE

\* A request with setLocale for 'vendor' and one without it for a script
\* that has no name were submitted.
C16_Witness ==
    /\ Made("executor.inlineAll") # {}
    /\ Len(options) = 2
    /\ LET eligible == SelectSeq(emittedFiles, Eligible)
       IN /\ options[1].setLocale /\ ~options[2].setLocale
          /\ eligible[1].name = "vendor"
          /\ eligible[2].name = undefined

\* The calls of the file system.
FileCalls == Made("readFileSync") \cup Made("unlinkSync")

\* C17: every read and delete is made before the requests are submitted;
\* copyAssets is called after the stream has yielded a result for every
\* request and has ended, and after every read, delete and report; and from
\* the submission on the consumed paths are the paths read before it, the
\* ones copyAssets is given to ignore.
C17_StagesInOrder ==
    LET submissions == Made("executor.inlineAll")
        copies == Made("copyAssets")
        earlier == FileCalls \cup submissions \cup Made("executor.next")
                    \cup Made("logger.error") \cup Made("logger.warn")
    IN /\ \A j \in submissions : \A i \in FileCalls : i < j
       /\ copies # {} =>
            /\ \A j \in copies : \A i \in earlier : i < j
            /\ \E i \in Made("executor.next") : trace[i].res = "done"
            /\ Cardinality(Yields) = Len(options)
            /\ \A j \in copies : trace[j].arg = Ignore(originalFiles)
       /\ submissions # {} => originalFiles = PathsRead

\* Two artifacts and a map were read and deleted, two results came, and the
\* copy was made.
C17_Witness ==
    /\ pc = "Returned"
    /\ CopyDone
    /\ Len(originalFiles) = 3
    /\ Cardinality(Made("unlinkSync")) = 3
    /\ Cardinality(Yields) = 2

\* C18: no file is in more than one request, no path is more than once among
\* the consumed paths, and no file of a request is in an output root.
C18_NoPathHandledTwice ==
    /\ \A i, j \in DOMAIN options : options[i].filename = options[j].filename => i = j
    /\ \A i, j \in DOMAIN originalFiles : originalFiles[i] = originalFiles[j] => i = j
    /\ \A p \in PrimaryPaths : TimesSubmitted(p) <= 1
    /\ \A i \in DOMAIN options : \A o \in outputs : o[2] # options[i].filename

\* The channel of a diagnostic.
Channel(diagnostic) == IF diagnostic.type = "error" THEN "logger.error" ELSE "logger.warn"

RECURSIVE ReportsDue(_)
\* The reports due for the results in the calls tr, in the order in which
\* the results came and, for one result, in the order of its diagnostics.
ReportsDue(tr) ==
    IF tr = <<>> THEN <<>>
    ELSE LET c == Head(tr)
             due == IF c.op = "executor.next" /\ c.res = "ok"
                    THEN [k \in DOMAIN c.arg[1].diagnostics |->
                            Call(Channel(c.arg[1].diagnostics[k]),
                                 c.arg[1].diagnostics[k].message, "ok")]
                    ELSE <<>>
         IN due \o ReportsDue(Tail(tr))

\* C19: the calls of logger.error and logger.warn are, in order, one for
\* each diagnostic of each result in the order in which the results came
\* and in the order of the diagnostics of a result, on logger.error for the
\* type 'error' and on logger.warn for any other; the reports of a result
\* are made before the next result is taken, each after spinner.stop and
\* before spinner.start.
C19_ReportedInArrivalOrderOnce ==
    /\ SelectSeq(trace, IsDiagnosticCall) = ReportsDue(trace)
    /\ \A i \in Yields :
        \A k \in DOMAIN ResultAt(i).diagnostics :
            /\ i + 3 * k + 1 <= Len(trace)
            /\ trace[i + 3 * k - 1].op = "spinner.stop"
            /\ trace[i + 3 * k].op = Channel(ResultAt(i).diagnostics[k])
            /\ trace[i + 3 * k].arg = ResultAt(i).diagnostics[k].message
            /\ trace[i + 3 * k + 1].op = "spinner.start"

\* The result of the second request came first with a warning, then the
\* result of the first request with an error; the warning was reported
\* before the error.
C19_Witness ==
    /\ Len(options) = 2
    /\ options[1].filename # options[2].filename
    /\ \E i, j \in Yields :
        /\ i < j
        /\ ResultAt(i).file = options[2].filename
        /\ ResultAt(j).file = options[1].filename
        /\ Len(ResultAt(i).diagnostics) = 1 /\ ResultAt(i).diagnostics[1].type = "warning"
        /\ Len(ResultAt(j).diagnostics) = 1 /\ ResultAt(j).diagnostics[1].type = "error"
        /\ \E a \in Made("logger.warn") : \E b \in Made("logger.error") : a < b

\* C20: under the fairness of FairSpec, a run that is consuming the
\* artifacts, waiting for the stream or waiting for copyAssets eventually
\* returns, with executor.stop called once.
C20_EventuallyReturnsWithExecutorStopped ==
    (pc \in {"Consuming", "Transforming", "Reconciling"})
        ~> (pc = "Returned" /\ returned # Absent /\ Cardinality(Made("executor.stop")) = 1)

\* The function returned after an empty submission, the end of the stream
\* and the copy, with the executor stopped.
C20_Witness ==
    /\ pc = "Returned"
    /\ options = <<>>
    /\ emittedFiles # <<>>
    /\ \E i \in Made("executor.inlineAll") : trace[i].arg = <<>>
    /\ CopyDone
    /\ Cardinality(Made("executor.stop")) = 1

====
